---------------------------- MODULE Spec2Model ----------------------------
(***************************************************************************)
(* dox2txt: byte decoding, XML sanitizing, RTF escape decoding and the     *)
(* per-format dispatch (src/src/tools.rs, src/src/core.rs).                *)
(*                                                                         *)
(* A byte is a number 0..255, a byte buffer a sequence of bytes, a text a  *)
(* sequence of Unicode scalar values (Rust's str seen as its chars()).     *)
(* A Result is a record [ok, text, raw, err]: text is the value of Ok,     *)
(* raw the text the byte decoding stage produced before any later stage    *)
(* touched it, err the message of Err.                                     *)
(***************************************************************************)
EXTENDS Integers, Sequences, FiniteSets, TLC

VARIABLES pc, data, ext, guess, guess2, res, prev, rtf, pos, bytes,
          tree, walk, args, printed, written, removed, converted, ret

\* The state of the batch loop (src/src/main_logic.rs): the entries the walk
\* yields, the index of the one the loop is at, the command line, the lines printed, the
\* output files written, the files removed, the entries convert_file was
\* called on and the value main_logic returned
walk_vars == <<tree, walk, args, printed, written, removed, converted, ret>>

vars == <<pc, data, ext, guess, guess2, res, prev, rtf, pos, bytes, walk_vars>>

\* No batch is running
NoWalk ==
    /\ tree = <<>>
    /\ walk = 1
    /\ args = <<>>
    /\ printed = <<>>
    /\ written = {}
    /\ removed = {}
    /\ converted = {}
    /\ ret = "none"

---------------------------------------------------------------------------
(* Results (anyhow::Result<String>)                                        *)

Ok(t, r) == [ok |-> TRUE, text |-> t, raw |-> r, err |-> <<>>]

Err(e) == [ok |-> FALSE, text |-> <<>>, raw |-> <<>>, err |-> e]

None == [ok |-> FALSE, text |-> <<>>, raw |-> <<>>, err |-> <<"none">>]

---------------------------------------------------------------------------
(* Sequences                                                               *)

Tail_from(s, i) == SubSeq(s, i, Len(s))

StartsWith(s, p) == Len(s) >= Len(p) /\ SubSeq(s, 1, Len(p)) = p

\* str::find: the index of the first occurrence of pat in s, 0 when there is none
Find(s, pat) ==
    LET idx == {i \in 1..(Len(s) - Len(pat) + 1) : SubSeq(s, i, i + Len(pat) - 1) = pat}
    IN  IF idx = {} THEN 0 ELSE CHOOSE i \in idx : \A j \in idx : i <= j

\* str::contains
Contains(s, pat) == Find(s, pat) # 0

\* str::replace: every non-overlapping occurrence, left to right
RECURSIVE Replace(_, _, _)
Replace(s, from, to) ==
    LET i == Find(s, from)
    IN  IF i = 0 THEN s
        ELSE SubSeq(s, 1, i - 1) \o to \o Replace(Tail_from(s, i + Len(from)), from, to)

\* char::is_whitespace (the Unicode White_Space property), used by str::trim
IsWhitespace(c) ==
    \/ c \in 9..13
    \/ c \in {32, 133, 160, 5760, 8232, 8233, 8239, 8287, 12288}
    \/ c \in 8192..8202

\* str::trim
Trim(s) ==
    LET keep == {i \in 1..Len(s) : ~IsWhitespace(s[i])}
    IN  IF keep = {} THEN <<>>
        ELSE SubSeq(s, CHOOSE i \in keep : \A j \in keep : i <= j,
                       CHOOSE i \in keep : \A j \in keep : i >= j)

---------------------------------------------------------------------------
(* UTF-8 and UTF-16                                                        *)

\* char::encode_utf8
Utf8Encode(c) ==
    IF c < 128 THEN <<c>>
    ELSE IF c < 2048 THEN <<192 + (c \div 64), 128 + (c % 64)>>
    ELSE IF c < 65536 THEN
        <<224 + (c \div 4096), 128 + ((c \div 64) % 64), 128 + (c % 64)>>
    ELSE <<240 + (c \div 262144), 128 + ((c \div 4096) % 64),
           128 + ((c \div 64) % 64), 128 + (c % 64)>>

\* str::as_bytes
RECURSIVE StrBytes(_)
StrBytes(s) == IF s = <<>> THEN <<>> ELSE Utf8Encode(Head(s)) \o StrBytes(Tail(s))

\* The UTF-8 decoder with replacement (String::from_utf8_lossy, and encoding_rs'
\* UTF_8.decode_without_bom_handling): one U+FFFD for every maximal invalid part.
RECURSIVE Utf8From(_, _)
Utf8From(d, i) ==
    IF i > Len(d) THEN [text |-> <<>>, had_errors |-> FALSE]
    ELSE
      LET b == d[i]
          Cont(j, lo, hi) == j <= Len(d) /\ d[j] >= lo /\ d[j] <= hi
          Emit(c, k) == LET r == Utf8From(d, i + k)
                        IN  [text |-> <<c>> \o r.text, had_errors |-> r.had_errors]
          Bad(k) == LET r == Utf8From(d, i + k)
                    IN  [text |-> <<65533>> \o r.text, had_errors |-> TRUE]
      IN  IF b < 128 THEN Emit(b, 1)
          ELSE IF b >= 194 /\ b <= 223 THEN
              IF Cont(i + 1, 128, 191)
              THEN Emit((b - 192) * 64 + (d[i + 1] - 128), 2)
              ELSE Bad(1)
          ELSE IF b >= 224 /\ b <= 239 THEN
              IF ~Cont(i + 1, IF b = 224 THEN 160 ELSE 128, IF b = 237 THEN 159 ELSE 191)
              THEN Bad(1)
              ELSE IF ~Cont(i + 2, 128, 191) THEN Bad(2)
              ELSE Emit((b - 224) * 4096 + (d[i + 1] - 128) * 64 + (d[i + 2] - 128), 3)
          ELSE IF b >= 240 /\ b <= 244 THEN
              IF ~Cont(i + 1, IF b = 240 THEN 144 ELSE 128, IF b = 244 THEN 143 ELSE 191)
              THEN Bad(1)
              ELSE IF ~Cont(i + 2, 128, 191) THEN Bad(2)
              ELSE IF ~Cont(i + 3, 128, 191) THEN Bad(3)
              ELSE Emit((b - 240) * 262144 + (d[i + 1] - 128) * 4096
                        + (d[i + 2] - 128) * 64 + (d[i + 3] - 128), 4)
          ELSE Bad(1)

\* String::from_utf8_lossy
from_utf8_lossy(d) == Utf8From(d, 1).text

\* chunks_exact(2).map(u16::from_le_bytes / u16::from_be_bytes): a trailing odd
\* byte is left out
Units(d, le) ==
    [k \in 1..(Len(d) \div 2) |->
        IF le THEN d[2 * k - 1] + 256 * d[2 * k] ELSE 256 * d[2 * k - 1] + d[2 * k]]

\* The UTF-16 decoder with replacement: one U+FFFD for every unpaired surrogate
RECURSIVE Utf16From(_, _)
Utf16From(u, i) ==
    IF i > Len(u) THEN [text |-> <<>>, had_errors |-> FALSE]
    ELSE
      LET Emit(c, k) == LET r == Utf16From(u, i + k)
                        IN  [text |-> <<c>> \o r.text, had_errors |-> r.had_errors]
          Bad == LET r == Utf16From(u, i + 1)
                 IN  [text |-> <<65533>> \o r.text, had_errors |-> TRUE]
      IN  IF u[i] >= 55296 /\ u[i] <= 56319 /\ i < Len(u)
             /\ u[i + 1] >= 56320 /\ u[i + 1] <= 57343
          THEN Emit(65536 + (u[i] - 55296) * 1024 + (u[i + 1] - 56320), 2)
          ELSE IF u[i] >= 55296 /\ u[i] <= 57343 THEN Bad
          ELSE Emit(u[i], 1)

\* String::from_utf16_lossy
from_utf16_lossy(u) == Utf16From(u, 1).text

---------------------------------------------------------------------------
(* encoding_rs: the encodings the detector can name, and Encoding::decode  *)

\* windows-1252, bytes 0x80..0x9F (every byte is mapped)
W1252_80 ==
    <<8364, 129, 8218, 402, 8222, 8230, 8224, 8225, 710, 8240, 352, 8249, 338, 141,
      381, 143, 144, 8216, 8217, 8220, 8221, 8226, 8211, 8212, 732, 8482, 353, 8250,
      339, 157, 382, 376>>

\* windows-1253, bytes 0x80..0x9F
W1253_80 ==
    <<8364, 129, 8218, 402, 8222, 8230, 8224, 8225, 136, 8240, 138, 8249, 140, 141,
      142, 143, 144, 8216, 8217, 8220, 8221, 8226, 8211, 8212, 152, 8482, 154, 8250,
      156, 157, 158, 159>>

\* windows-1253, bytes 0xA0..0xC0; -1 marks an unmapped byte (0xAA)
W1253_A0 ==
    <<160, 901, 902, 163, 164, 165, 166, 167, 168, 169, -1, 171, 172, 173, 174, 8213,
      176, 177, 178, 179, 900, 181, 182, 183, 904, 905, 906, 187, 908, 189, 910, 911,
      912>>

\* The character a single-byte encoding maps byte b to, -1 when b is unmapped
\* (windows-1253 leaves 0xAA, 0xD2 and 0xFF unmapped)
ByteChar(enc, b) ==
    IF b < 128 THEN b
    ELSE IF enc = "windows-1252" THEN (IF b < 160 THEN W1252_80[b - 127] ELSE b)
    ELSE IF b < 160 THEN W1253_80[b - 127]
    ELSE IF b <= 192 THEN W1253_A0[b - 159]
    ELSE IF b = 210 \/ b = 255 THEN -1
    ELSE b + 720

\* Encoding::for_bom: the encoding a byte-order mark names, and the mark's length
for_bom(d) ==
    IF StartsWith(d, <<239, 187, 191>>) THEN [enc |-> "UTF-8", len |-> 3]
    ELSE IF StartsWith(d, <<255, 254>>) THEN [enc |-> "UTF-16LE", len |-> 2]
    ELSE IF StartsWith(d, <<254, 255>>) THEN [enc |-> "UTF-16BE", len |-> 2]
    ELSE [enc |-> "", len |-> 0]

\* Encoding::decode_without_bom_handling: the text with U+FFFD for every malformed
\* sequence, and whether there was one
decode_without_bom_handling(enc, d) ==
    IF enc = "UTF-8" THEN Utf8From(d, 1)
    ELSE IF enc \in {"UTF-16LE", "UTF-16BE"} THEN
        LET r == Utf16From(Units(d, enc = "UTF-16LE"), 1)
        IN  IF Len(d) % 2 = 1
            THEN [text |-> r.text \o <<65533>>, had_errors |-> TRUE]
            ELSE r
    ELSE [text |-> [i \in 1..Len(d) |->
                       IF ByteChar(enc, d[i]) < 0 THEN 65533 ELSE ByteChar(enc, d[i])],
          had_errors |-> \E i \in 1..Len(d) : ByteChar(enc, d[i]) < 0]

\* Encoding::decode: BOM sniffing first (a mark overrides the encoding and is
\* removed), then decode_without_bom_handling
Decode(enc, d) ==
    LET bom == for_bom(d)
    IN  decode_without_bom_handling(IF bom.len > 0 THEN bom.enc ELSE enc,
                                    Tail_from(d, bom.len + 1))

---------------------------------------------------------------------------
(* src/src/tools.rs                                                        *)

is_utf8(d) == ~Decode("UTF-8", d).had_errors

\* decode_bytes with the had_errors check left out: the substituted text is returned
decode_bytes_lossy(d, enc) == LET r == Decode(enc, d) IN Ok(r.text, r.text)

\* enc is the detector's guess for d (EncodingDetector::guess)
decode_bytes(d, enc) ==
    LET r == Decode(enc, d)
    IN  IF r.had_errors THEN Err(<<"decode errors with", enc>>)
        ELSE Ok(r.text, r.text)

safe_decode_bytes(d, enc) ==
    IF d = <<>> THEN Ok(<<>>, <<>>)
    ELSE IF Len(d) >= 2 THEN
        IF d[1] = 255 /\ d[2] = 254
        THEN LET t == from_utf16_lossy(Units(Tail_from(d, 3), TRUE)) IN Ok(t, t)
        ELSE IF d[1] = 254 /\ d[2] = 255
        THEN LET t == from_utf16_lossy(Units(Tail_from(d, 3), FALSE)) IN Ok(t, t)
        ELSE IF is_utf8(d)
        THEN LET t == from_utf8_lossy(d) IN Ok(t, t)
        ELSE decode_bytes(d, enc)
    ELSE Ok(<<>>, <<>>)

\* char::to_digit(16) on an ASCII hexadecimal digit
IsHexDigit(c) == c \in 48..57 \/ c \in 65..70 \/ c \in 97..102

HexVal(c) == IF c <= 57 THEN c - 48 ELSE IF c <= 70 THEN c - 55 ELSE c - 87

\* u8::from_str_radix(&format!("{}{}", h1, h2), 16), -1 for Err: the digits are
\* parsed after an optional leading "+" sign
from_str_radix(h1, h2) ==
    IF IsHexDigit(h1) /\ IsHexDigit(h2) THEN 16 * HexVal(h1) + HexVal(h2)
    ELSE IF h1 = 43 /\ IsHexDigit(h2) THEN HexVal(h2)
    ELSE -1

\* rtf_step with the escape's value pushed as a character (its UTF-8 encoding)
\* in place of the raw byte
rtf_step_char(s, i, b) ==
    IF s[i] = 92 /\ i + 1 <= Len(s) /\ s[i + 1] = 39 THEN
        LET has1 == i + 2 <= Len(s)
            has2 == i + 3 <= Len(s)
            byte == IF has1 /\ has2 THEN from_str_radix(s[i + 2], s[i + 3]) ELSE -1
        IN  IF byte >= 0 THEN [pos |-> i + 4, bytes |-> b \o Utf8Encode(byte)]
            ELSE [pos |-> i + 2 + (IF has1 THEN 1 ELSE 0) + (IF has2 THEN 1 ELSE 0),
                  bytes |-> b \o <<92, 39>>
                              \o (IF has1 THEN <<s[i + 2] % 256>> ELSE <<>>)
                              \o (IF has2 THEN <<s[i + 3] % 256>> ELSE <<>>)]
    ELSE [pos |-> i + 1, bytes |-> b \o Utf8Encode(s[i])]

\* One pass of decode_rtf_escapes' while loop, at the character s[i] with the
\* accumulation buffer b: the next position and the buffer
rtf_step(s, i, b) ==
    IF s[i] = 92 /\ i + 1 <= Len(s) /\ s[i + 1] = 39 THEN
        LET has1 == i + 2 <= Len(s)
            has2 == i + 3 <= Len(s)
            byte == IF has1 /\ has2 THEN from_str_radix(s[i + 2], s[i + 3]) ELSE -1
        IN  IF byte >= 0 THEN [pos |-> i + 4, bytes |-> Append(b, byte)]
            ELSE [pos |-> i + 2 + (IF has1 THEN 1 ELSE 0) + (IF has2 THEN 1 ELSE 0),
                  bytes |-> b \o <<92, 39>>
                              \o (IF has1 THEN <<s[i + 2] % 256>> ELSE <<>>)
                              \o (IF has2 THEN <<s[i + 3] % 256>> ELSE <<>>)]
    ELSE [pos |-> i + 1, bytes |-> b \o Utf8Encode(s[i])]

\* The while loop from position i to the end of the text
RECURSIVE rtf_scan(_, _, _)
rtf_scan(s, i, b) ==
    IF i > Len(s) THEN b
    ELSE rtf_scan(s, rtf_step(s, i, b).pos, rtf_step(s, i, b).bytes)

\* enc is the detector's guess for the accumulation buffer
decode_rtf_escapes(s, enc) == decode_bytes(rtf_scan(s, 1, <<>>), enc)

clean_invalid_xml_chars(s) ==
    SelectSeq(s, LAMBDA c :
        \/ c \in {9, 10, 13}
        \/ (c >= 32 /\ c <= 55295)
        \/ (c >= 57344 /\ c <= 65533)
        \/ (c >= 65536 /\ c <= 1114111))

\* "<!DOCTYPE"
DOCTYPE == <<60, 33, 68, 79, 67, 84, 89, 80, 69>>

is_dtd(xml) == Contains(xml, DOCTYPE)

remove_dtd(xml) ==
    LET start == Find(xml, DOCTYPE)
        end == Find(Tail_from(xml, start), <<62>>)
    IN  IF start # 0 THEN
            IF end # 0
            THEN SubSeq(xml, 1, start - 1) \o Tail_from(xml, start + end)
            ELSE SubSeq(xml, 1, start - 1)
        ELSE xml

\* "&nbsp;", "&lt;", "&gt;", "&amp;", "&quot;", "&apos;"
NBSP == <<38, 110, 98, 115, 112, 59>>

LT == <<38, 108, 116, 59>>

GT == <<38, 103, 116, 59>>

AMP == <<38, 97, 109, 112, 59>>

QUOT == <<38, 113, 117, 111, 116, 59>>

APOS == <<38, 97, 112, 111, 115, 59>>

fix_html_entities(s) ==
    Replace(Replace(Replace(Replace(Replace(Replace(s,
        NBSP, <<160>>), LT, <<60>>), GT, <<62>>), AMP, <<38>>), QUOT, <<34>>),
        APOS, <<39>>)

\* sanitize_xml with the character filter left out of the DTD branch
sanitize_xml_unfiltered_dtd(d, enc) ==
    LET dec == safe_decode_bytes(d, enc)
        raw_xml == Trim(dec.text)
    IN  IF ~dec.ok THEN dec
        ELSE IF is_dtd(raw_xml)
        THEN Ok(fix_html_entities(remove_dtd(raw_xml)), dec.text)
        ELSE Ok(clean_invalid_xml_chars(raw_xml), dec.text)

\* sanitize_xml with the entity replacement applied in both branches
sanitize_xml_always_fix(d, enc) ==
    LET dec == safe_decode_bytes(d, enc)
        raw_xml == Trim(dec.text)
    IN  IF ~dec.ok THEN dec
        ELSE Ok(clean_invalid_xml_chars(fix_html_entities(remove_dtd(raw_xml))), dec.text)

sanitize_xml(d, enc) ==
    LET dec == safe_decode_bytes(d, enc)
        raw_xml == Trim(dec.text)
    IN  IF ~dec.ok THEN dec
        ELSE IF is_dtd(raw_xml)
        THEN Ok(clean_invalid_xml_chars(fix_html_entities(remove_dtd(raw_xml))), dec.text)
        ELSE Ok(clean_invalid_xml_chars(raw_xml), dec.text)

---------------------------------------------------------------------------
(* src/src/core.rs                                                         *)

\* The text extract_html hands to Html::parse_document (the parse and the body
\* selection are the scraper crate's)
extract_html(d, enc) == sanitize_xml(d, enc)

\* The text extract_fb2 hands to Document::parse
extract_fb2(d, enc) == sanitize_xml(d, enc)

\* Read::read_to_string: an error unless the bytes are valid UTF-8
read_to_string(d) ==
    IF Utf8From(d, 1).had_errors
    THEN Err(<<"stream did not contain valid UTF-8">>)
    ELSE Ok(from_utf8_lossy(d), from_utf8_lossy(d))

\* extract_zipped on an archive whose one selected entry holds d: the text handed
\* to Document::parse
extract_zipped(d, enc) ==
    LET entry == read_to_string(d)
    IN  IF ~entry.ok THEN entry ELSE sanitize_xml(StrBytes(entry.text), enc)

\* The text extract_rtf hands to RtfDocument::try_from; enc2 is the detector's
\* guess for the accumulation buffer
extract_rtf(d, enc, enc2) ==
    LET raw_rtf == safe_decode_bytes(d, enc)
        decoded_rtf == decode_rtf_escapes(Trim(raw_rtf.text), enc2)
    IN  IF ~raw_rtf.ok THEN raw_rtf
        ELSE [decoded_rtf EXCEPT !.raw = raw_rtf.text]

convert_to_utf8(d, enc) ==
    IF is_utf8(d) THEN Ok(Trim(from_utf8_lossy(d)), from_utf8_lossy(d))
    ELSE LET txt == decode_bytes(d, enc)
         IN  IF ~txt.ok THEN txt ELSE Ok(Trim(txt.text), txt.text)

\* e is the lower-cased extension of the path
convert_file(e, d, enc, enc2) ==
    IF e = "epub" THEN extract_zipped(d, enc)
    ELSE IF e = "fb2" THEN extract_fb2(d, enc)
    ELSE IF e = "docx" THEN extract_zipped(d, enc)
    ELSE IF e = "rtf" THEN extract_rtf(d, enc, enc2)
    ELSE IF e \in {"html", "htm"} THEN extract_html(d, enc)
    ELSE IF e = "txt" THEN convert_to_utf8(d, enc)
    ELSE Err(<<"unsupported extension">>)

---------------------------------------------------------------------------
(* Inputs                                                                  *)

RECURSIVE Concat(_)
Concat(ts) == IF ts = <<>> THEN <<>> ELSE Head(ts) \o Concat(Tail(ts))

TokenSeqs(T, n) == UNION {[1..k -> T] : k \in 0..n}

\* "<!DOCTYPE foo [ <!ENTITY x \"y\"> ]>"
DtdExample ==
    <<60, 33, 68, 79, 67, 84, 89, 80, 69, 32, 102, 111, 111, 32, 91, 32, 60, 33, 69,
      78, 84, 73, 84, 89, 32, 120, 32, 34, 121, 34, 62, 32, 93, 62>>

\* "<root>hi</root>"
RootExample == <<60, 114, 111, 111, 116, 62, 104, 105, 60, 47, 114, 111, 111, 116, 62>>

\* The pieces the sanitizer's inputs are put together from: the marker, ">", the
\* six named references, "quot;", "!DOCTYPE", NUL, tab, VT, space, "a", DEL, NEL
\* (U+0085) and U+FFFE
SanTokens ==
    {DOCTYPE, <<62>>, AMP, LT, GT, NBSP, QUOT, APOS, <<113, 117, 111, 116, 59>>,
     <<33, 68, 79, 67, 84, 89, 80, 69>>, <<0>>, <<9>>, <<11>>, <<32>>, <<97>>, <<127>>,
     <<133>>, <<65534>>}

MaxSanTokens == 3

\* The UTF-8 bytes of every text of at most MaxSanTokens pieces, and of the DTD
\* example followed by the root element
SanInputs ==
    {StrBytes(Concat(ts)) : ts \in TokenSeqs(SanTokens, MaxSanTokens)}
        \cup {StrBytes(DtdExample \o RootExample)}

---------------------------------------------------------------------------
(* The sanitizer applied to a buffer, applied again to its own output, and *)
(* the Html extraction of the same buffer                                  *)

InitSan ==
    /\ pc = "start"
    /\ data \in SanInputs
    /\ ext = ""
    /\ guess = "windows-1252"
    /\ guess2 = "windows-1252"
    /\ res = None
    /\ prev = None
    /\ rtf = <<>>
    /\ pos = 1
    /\ bytes = <<>>
    /\ NoWalk

SanitizeXml ==
    /\ pc = "start"
    /\ res' = sanitize_xml(data, guess)
    /\ pc' = "sanitized"
    /\ UNCHANGED <<data, ext, guess, guess2, prev, rtf, pos, bytes, walk_vars>>

\* sanitize_xml on the UTF-8 bytes of its own output
Resanitize ==
    /\ pc = "sanitized"
    /\ res.ok
    /\ prev' = res
    /\ data' = StrBytes(res.text)
    /\ res' = sanitize_xml(data', guess)
    /\ pc' = "resanitized"
    /\ UNCHANGED <<ext, guess, guess2, rtf, pos, bytes, walk_vars>>

ExtractHtml ==
    /\ pc = "start"
    /\ ext' = "html"
    /\ res' = extract_html(data, guess)
    /\ pc' = "html"
    /\ UNCHANGED <<data, guess, guess2, prev, rtf, pos, bytes, walk_vars>>

NextSan == SanitizeXml \/ Resanitize \/ ExtractHtml

SpecSan == InitSan /\ [][NextSan]_vars

---------------------------------------------------------------------------
(* Claims about the sanitizer (checked under SpecSan)                      *)

\* The number of places where pat occurs in s
\* pat occurs in s at index i
OccursAt(s, i, pat) == i + Len(pat) - 1 <= Len(s) /\ SubSeq(s, i, i + Len(pat) - 1) = pat

Count(s, pat) == Cardinality({i \in 1..Len(s) : OccursAt(s, i, pat)})

\* The six named references
Refs == {NBSP, LT, GT, AMP, QUOT, APOS}

\* The literal character a named reference stands for
Literal(r) ==
    IF r = NBSP THEN <<160>> ELSE IF r = LT THEN <<60>> ELSE IF r = GT THEN <<62>>
    ELSE IF r = AMP THEN <<38>> ELSE IF r = QUOT THEN <<34>> ELSE <<39>>

\* The characters the claims call control characters other than tab, LF and CR
IsC0Control(c) == c < 32 /\ c \notin {9, 10, 13}

IsDelOrC1Control(c) == c >= 127 /\ c <= 159

\* C1: sanitizing is idempotent: sanitize_xml applied to the UTF-8 bytes of the
\* output of sanitize_xml succeeds and returns that same output unchanged.
C1_Idempotent == pc = "resanitized" => (res.ok /\ res.text = prev.text)

\* C2: the DTD example sanitizes to exactly "<root>hi</root>", nothing of the
\* internal subset left.
C2_DtdExcision ==
    (pc = "sanitized" /\ data = StrBytes(DtdExample \o RootExample))
        => (res.ok /\ res.text = RootExample)

\* C3 as claimed: a successful output of sanitize_xml holds no C0 control other
\* than tab, LF and CR, no DEL, no C1 control, no U+FFFE and no U+FFFF.
C3_NoControlChars ==
    (pc \in {"sanitized", "resanitized"} /\ res.ok)
        => \A i \in 1..Len(res.text) :
              /\ ~IsC0Control(res.text[i])
              /\ ~IsDelOrC1Control(res.text[i])
              /\ res.text[i] \notin {65534, 65535}

\* C3 as amended: a successful output of sanitize_xml, in the DTD-present and in
\* the DTD-absent branch, holds no NUL and no other C0 control except tab, LF and
\* CR, no surrogate, no U+FFFE and no U+FFFF (DEL and the C1 controls are inside
\* the allowed range U+0020..U+D7FF and stay).
C3_NoC0Controls ==
    (pc \in {"sanitized", "resanitized"} /\ res.ok)
        => \A i \in 1..Len(res.text) :
              /\ ~IsC0Control(res.text[i])
              /\ ~(res.text[i] >= 55296 /\ res.text[i] <= 57343)
              /\ res.text[i] \notin {65534, 65535}

\* C3's case: a text with a DOCTYPE, a NUL, a U+FFFE and a DEL was sanitized; the
\* output keeps the DEL.
C3_Witness ==
    /\ pc = "sanitized"
    /\ res.ok
    /\ is_dtd(Trim(res.raw))
    /\ \E i \in 1..Len(res.raw) : res.raw[i] = 0
    /\ \E i \in 1..Len(res.raw) : res.raw[i] = 127
    /\ \E i \in 1..Len(res.text) : res.text[i] = 127

\* A text in which no replacement and no filtering can happen
Inert(s) == \A i \in 1..Len(s) : s[i] # 38 /\ <<s[i]>> = clean_invalid_xml_chars(<<s[i]>>)

\* The trimmed text with its DOCTYPE declaration (the marker up to the first ">"
\* after it, or up to the end) cut out
OutsideDtd(t) ==
    LET m == CHOOSE i \in 1..Len(t) : OccursAt(t, i, DOCTYPE)
                 /\ \A j \in 1..(i - 1) : ~OccursAt(t, j, DOCTYPE)
        closes == {j \in m..Len(t) : t[j] = 62}
    IN  IF closes = {} THEN SubSeq(t, 1, m - 1)
        ELSE SubSeq(t, 1, m - 1)
             \o SubSeq(t, (CHOOSE j \in closes : \A k \in closes : j <= k) + 1, Len(t))

C10_HtmlFilterOnly ==
    (pc = "html" /\ res.ok) =>
        /\ Contains(res.raw, DOCTYPE) => Contains(res.text, DOCTYPE)
        /\ \A r \in Refs : Count(res.text, r) >= Count(res.raw, r)

---------------------------------------------------------------------------
(* The decoders and the dispatch applied to a byte buffer                  *)

\* The encodings the detector's guess is drawn from: one that maps every byte
\* and one with unmapped bytes
Encodings == {"windows-1252", "windows-1253"}

Exts == {"epub", "fb2", "docx", "rtf", "html", "htm", "txt", "zip"}

\* The pieces the buffers are put together from: the two UTF-16 marks, "A" and
\* "B" as little-endian and as big-endian units, the ASCII byte "A", "e" with
\* acute in UTF-8, the byte 0xFF, the unit 0xD800 (an unpaired surrogate) in
\* little-endian order, the RTF escape \'ff and the UTF-8 mark
DecTokens ==
    {<<255, 254>>, <<254, 255>>, <<65, 0>>, <<66, 0>>, <<0, 65>>, <<0, 66>>, <<65>>,
     <<195, 169>>, <<255>>, <<0, 216>>, <<92, 39, 102, 102>>, <<239, 187, 191>>}

MaxDecTokens == 3

DecInputs == {Concat(ts) : ts \in TokenSeqs(DecTokens, MaxDecTokens)}

InitDec ==
    /\ pc = "start"
    /\ data \in DecInputs
    /\ ext = ""
    /\ guess = "windows-1252"
    /\ guess2 = "windows-1252"
    /\ res = None
    /\ prev = None
    /\ rtf = <<>>
    /\ pos = 1
    /\ bytes = <<>>
    /\ NoWalk

DecodeBytes ==
    /\ pc = "start"
    /\ \E g \in Encodings :
        /\ guess' = g
        /\ res' = decode_bytes(data, g)
    /\ pc' = "decode_bytes"
    /\ UNCHANGED <<data, ext, guess2, prev, rtf, pos, bytes, walk_vars>>

SafeDecodeBytes ==
    /\ pc = "start"
    /\ \E g \in Encodings :
        /\ guess' = g
        /\ res' = safe_decode_bytes(data, g)
    /\ pc' = "safe_decode"
    /\ UNCHANGED <<data, ext, guess2, prev, rtf, pos, bytes, walk_vars>>

\* convert_file on a file with extension e that holds data (for Epub and Docx:
\* whose one selected entry holds data)
ConvertFile ==
    /\ pc = "start"
    /\ \E e \in Exts : \E g \in Encodings :
        \E g2 \in (IF e = "rtf" THEN Encodings ELSE {g}) :
            /\ ext' = e
            /\ guess' = g
            /\ guess2' = g2
            /\ res' = convert_file(e, data, g, g2)
    /\ pc' = "converted"
    /\ UNCHANGED <<data, prev, rtf, pos, bytes, walk_vars>>

NextDec == DecodeBytes \/ SafeDecodeBytes \/ ConvertFile

SpecDec == InitDec /\ [][NextDec]_vars

---------------------------------------------------------------------------
(* decode_rtf_escapes, one pass of its loop at a time                      *)

\* "\'41\'42"
RtfExample == <<92, 39, 52, 49, 92, 39, 52, 50>>

\* The pieces the RTF texts are put together from: \' , a backslash, "41", "4",
\* "+", "e9", "g", "e" with acute and "L" with stroke (U+0141)
RtfTokens ==
    {<<92, 39>>, <<92>>, <<52, 49>>, <<52>>, <<43>>, <<101, 57>>, <<103>>, <<233>>,
     <<321>>}

MaxRtfTokens == 3

RtfInputs == {Concat(ts) : ts \in TokenSeqs(RtfTokens, MaxRtfTokens)} \cup {RtfExample}

InitRtf ==
    /\ pc = "scan"
    /\ rtf \in RtfInputs
    /\ pos = 1
    /\ bytes = <<>>
    /\ data = <<>>
    /\ ext = "rtf"
    /\ guess = "windows-1252"
    /\ guess2 = "windows-1252"
    /\ res = None
    /\ prev = None
    /\ NoWalk

\* while let Some(c) = chars.next() { ... }
RtfStep ==
    /\ pc = "scan"
    /\ pos <= Len(rtf)
    /\ pos' = rtf_step(rtf, pos, bytes).pos
    /\ bytes' = rtf_step(rtf, pos, bytes).bytes
    /\ UNCHANGED <<pc, data, ext, guess, guess2, res, prev, rtf, walk_vars>>

\* let text = decode_bytes(&bytes)?
RtfFinish ==
    /\ pc = "scan"
    /\ pos > Len(rtf)
    /\ \E g \in Encodings :
        /\ guess' = g
        /\ res' = decode_bytes(bytes, g)
    /\ pc' = "done"
    /\ UNCHANGED <<data, ext, guess2, prev, rtf, pos, bytes, walk_vars>>

NextRtf == RtfStep \/ RtfFinish

SpecRtf == InitRtf /\ [][NextRtf]_vars

---------------------------------------------------------------------------
(* Claims about the decoders (checked under SpecDec)                       *)

Utf16Bom(d) == StartsWith(d, <<255, 254>>) \/ StartsWith(d, <<254, 255>>)

HasReplacement(t) == \E i \in 1..Len(t) : t[i] = 65533

\* The text a buffer with a UTF-16 mark stands for: the mark stripped, the rest
\* read as 16-bit units in the mark's order
Utf16Text(d) == from_utf16_lossy(Units(Tail_from(d, 3), StartsWith(d, <<255, 254>>)))

\* C4: a buffer without a UTF-16 mark that is strictly valid UTF-8, of any
\* length, decodes successfully to exactly the text its bytes encode.
C4_Utf8Passthrough ==
    (pc = "safe_decode" /\ ~Utf16Bom(data) /\ ~Utf8From(data, 1).had_errors)
        => (res.ok /\ StrBytes(res.text) = data)

\* The buffer went to the detector: no UTF-16 mark, two bytes or more, not UTF-8
Heuristic(d) == ~Utf16Bom(d) /\ Len(d) >= 2 /\ Utf8From(d, 1).had_errors

NamesGuess(r, g) == ~r.ok /\ r.err = <<"decode errors with", g>>

\* C5: whenever decoding under the guessed encoding needs a substitution the
\* result is an error naming the guess, and no caller gets a text with a
\* replacement character from the heuristic step: decode_bytes itself,
\* safe_decode_bytes, sanitize_xml (Fb2, Html), convert_to_utf8 (txt) and
\* decode_rtf_escapes (Rtf). (No buffer of DecInputs encodes U+FFFD itself, and a
\* buffer with a UTF-16 mark does not reach the heuristic step.)
C5_UnreliableEncodingFails ==
    /\ pc = "decode_bytes" =>
        /\ Decode(guess, data).had_errors => NamesGuess(res, guess)
        /\ res.ok => ~HasReplacement(res.text)
    /\ (pc = "safe_decode" \/ (pc = "converted" /\ ext \in {"fb2", "html", "htm", "txt"})) =>
        /\ (Heuristic(data) /\ Decode(guess, data).had_errors) => NamesGuess(res, guess)
        /\ (res.ok /\ ~Utf16Bom(data)) => ~HasReplacement(res.text)
        /\ ~res.ok => NamesGuess(res, guess)
    /\ (pc = "converted" /\ ext = "rtf") =>
        /\ (Heuristic(data) /\ Decode(guess, data).had_errors) => NamesGuess(res, guess)
        /\ (res.ok /\ ~Utf16Bom(data)) => ~HasReplacement(res.text)
        /\ ~res.ok => (NamesGuess(res, guess) \/ NamesGuess(res, guess2))

\* C5's case: a buffer that is not UTF-8 and has a byte the guessed encoding does
\* not map went through safe_decode_bytes and came back as the error.
C5_Witness ==
    /\ pc = "safe_decode"
    /\ Heuristic(data)
    /\ Decode(guess, data).had_errors
    /\ NamesGuess(res, guess)

\* C6: in every format that decodes bytes a buffer with a UTF-16 mark is decoded
\* as UTF-16 with the mark stripped, and that step does not fail (for Rtf the
\* later escape decoding may).
C6_BomFirst ==
    (pc = "converted" /\ ext \in Exts \ {"zip"} /\ Utf16Bom(data)) =>
        /\ res.raw = Utf16Text(data)
        /\ ext # "rtf" => res.ok

---------------------------------------------------------------------------
(* Claims about decode_rtf_escapes (checked under SpecRtf)                 *)

\* At position i of s a backslash is followed by an apostrophe
StartsEscape(s, i) == s[i] = 92 /\ i + 1 <= Len(s) /\ s[i + 1] = 39

\* ... and by two hexadecimal digits
WellFormedAt(s, i) ==
    /\ StartsEscape(s, i)
    /\ i + 3 <= Len(s)
    /\ IsHexDigit(s[i + 2])
    /\ IsHexDigit(s[i + 3])

\* The characters (at most two) a malformed escape at position i consumes
Consumed(s, i) == SubSeq(s, i + 2, IF i + 3 <= Len(s) THEN i + 3 ELSE Len(s))

\* C7: a backslash-apostrophe followed by fewer than two characters, or by two
\* that are not both hexadecimal digits, synthesizes no byte: the buffer gets
\* the backslash, the apostrophe and the UTF-8 encoding of every consumed
\* character, and the scan goes on after them.
C7_MalformedEscapeKept ==
    [][(pc = "scan" /\ pos <= Len(rtf) /\ StartsEscape(rtf, pos) /\ ~WellFormedAt(rtf, pos))
        => /\ bytes' = bytes \o <<92, 39>> \o StrBytes(Consumed(rtf, pos))
           /\ pos' = pos + 2 + Len(Consumed(rtf, pos))
           /\ pc' = "scan"]_vars

\* C8: a backslash-apostrophe followed by two hexadecimal digits appends exactly
\* the one byte of that value and the scan resumes after the four characters; a
\* character that does not start a backslash-apostrophe is appended as its UTF-8
\* bytes; the finished buffer is decoded under the detector's guess (a byte
\* above 0x7F is a character of that encoding, not a piece of UTF-8); and
\* \'41\'42 gives "AB".
C8_EscapeDecode ==
    [][/\ (pc = "scan" /\ pos <= Len(rtf) /\ WellFormedAt(rtf, pos)) =>
            /\ bytes' = Append(bytes, 16 * HexVal(rtf[pos + 2]) + HexVal(rtf[pos + 3]))
            /\ pos' = pos + 4
       /\ (pc = "scan" /\ pos <= Len(rtf) /\ ~StartsEscape(rtf, pos)) =>
            /\ bytes' = bytes \o Utf8Encode(rtf[pos])
            /\ pos' = pos + 1
       /\ (pc = "scan" /\ pc' = "done") =>
            /\ res'.ok = ~Decode(guess', bytes).had_errors
            /\ res'.ok => res'.text = Decode(guess', bytes).text
            /\ rtf = RtfExample => (res'.ok /\ res'.text = <<65, 66>>)
            /\ (bytes = <<233>> /\ guess' = "windows-1252") => res'.text = <<233>>]_vars

\* C8's case: \'41\'42 was scanned to the bytes 0x41 0x42 and decoded to "AB".
C8_Witness ==
    /\ pc = "done"
    /\ rtf = RtfExample
    /\ bytes = <<65, 66>>
    /\ res.ok
    /\ res.text = <<65, 66>>

---------------------------------------------------------------------------
(* main_logic: the batch loop over a directory tree                        *)

sup_ext == {"epub", "fb2", "docx", "rtf", "html", "htm", "txt"}

thrash_ext ==
    {"djvu", "djv", "doc", "chm", "xls", "jpg", "jpeg", "gif", "png", "zip", "rar", "diz"}

\* args.get(i) == Some(&f.to_owned()), i counted from 0 as the code counts
Get(a, i, f) == i + 1 <= Len(a) /\ a[i + 1] = f

\* args.get(2) == Some(f) || args.get(3) == Some(f)
Flag(a, f) == Get(a, 2, f) \/ Get(a, 3, f)

\* What convert_file returns for a file with extension e that holds d: io says
\* whether the file (the archive) could be read, doc is what the document
\* parser makes of the sanitized text (an error, or the text it extracts);
\* plain text has no parser
extract(e, d, enc, enc2, io, doc) ==
    IF ~io THEN Err(<<"io error">>)
    ELSE LET r == convert_file(e, d, enc, enc2)
         IN  IF ~r.ok \/ e = "txt" THEN r
             ELSE IF ~doc.ok THEN doc
             ELSE Ok(doc.text, r.raw)

\* The batch after a pass that goes on to the next entry
Continue(w) == [w EXCEPT !.entry = w.entry + 1]

\* The batch after `?` met the error of the filesystem step op
Abort(w, op) == [w EXCEPT !.ret = op, !.pc = "returned"]

\* A line of standard output
Line(m, i, e) == [mark |-> m, entry |-> i, err |-> e]

\* A pass that hands the error of convert_file on with `?` instead of matching
\* on it
loop_pass_propagate(w, f, a, r, wr, rm) ==
    IF f.is_file /\ f.has_ext
    THEN IF f.ext \in sup_ext
         THEN LET c == [w EXCEPT !.converted = @ \cup {w.entry}]
                  text == Trim(r.text)
                  p == [c EXCEPT !.printed = Append(@, Line("->", w.entry, <<>>))]
                  o == [p EXCEPT !.written = @ \cup {<<w.entry, text>>}]
              IN  IF r.ok
                  THEN IF text # <<>>
                       THEN IF ~wr THEN Abort(p, "write failed")
                            ELSE IF Flag(a, "-r") /\ f.ext # "txt"
                                 THEN IF ~rm THEN Abort(o, "remove_file failed")
                                      ELSE Continue([o EXCEPT !.removed = @ \cup {w.entry}])
                                 ELSE Continue(o)
                       ELSE Continue(c)
                  ELSE Abort(c, "convert_file failed")
         ELSE IF f.ext \in thrash_ext /\ Flag(a, "-rt")
              THEN IF ~rm THEN Abort(w, "remove_file failed")
                   ELSE Continue([w EXCEPT !.removed = @ \cup {w.entry}])
              ELSE Continue(w)
    ELSE Continue(w)

\* One pass of the for loop on the entry f, the i-th of the walk; w is the
\* batch so far, a the command line, r what convert_file returns for f, wr and
\* rm whether fs::write and fs::remove_file succeed
loop_pass(w, f, a, r, wr, rm) ==
    IF f.is_file /\ f.has_ext
    THEN IF f.ext \in sup_ext
         THEN LET c == [w EXCEPT !.converted = @ \cup {w.entry}]
                  text == Trim(r.text)
                  p == [c EXCEPT !.printed = Append(@, Line("->", w.entry, <<>>))]
                  o == [p EXCEPT !.written = @ \cup {<<w.entry, text>>}]
              IN  IF r.ok
                  THEN IF text # <<>>
                       THEN IF ~wr THEN Abort(p, "write failed")
                            ELSE IF Flag(a, "-r") /\ f.ext # "txt"
                                 THEN IF ~rm THEN Abort(o, "remove_file failed")
                                      ELSE Continue([o EXCEPT !.removed = @ \cup {w.entry}])
                                 ELSE Continue(o)
                       ELSE Continue(c)
                  ELSE Continue([c EXCEPT !.printed = Append(@, Line("xxx", w.entry, r.err))])
         ELSE IF f.ext \in thrash_ext /\ Flag(a, "-rt")
              THEN IF ~rm THEN Abort(w, "remove_file failed")
                   ELSE Continue([w EXCEPT !.removed = @ \cup {w.entry}])
              ELSE Continue(w)
    ELSE Continue(w)

---------------------------------------------------------------------------
(* The batch, one pass of the loop at a time                               *)

\* An entry of the walk: a file or a directory, the lower-cased extension of
\* its path if it has one, and what the file holds
Entry(file, e, d) == [is_file |-> file, has_ext |-> e # "", ext |-> e, data |-> d]

\* The files hold "AB", or "A" and the byte 0xFF (no text under windows-1253)
Entries ==
    {Entry(TRUE, "fb2", <<65, 66>>), Entry(TRUE, "fb2", <<65, 255>>),
     Entry(TRUE, "txt", <<65, 66>>), Entry(TRUE, "djvu", <<65, 66>>),
     Entry(TRUE, "", <<65, 66>>), Entry(FALSE, "fb2", <<>>)}

MaxEntries == 2

Trees == UNION {[1..n -> Entries] : n \in 0..MaxEntries}

\* The program's name and the directory, then the options
CommandLines ==
    {<<"dox2txt", "dir">> \o o :
        o \in {<<>>, <<"-r">>, <<"-rt">>, <<"-r", "-rt">>, <<"-rt", "-r">>}}

\* What the parser of a format can make of a text: an error (Html::parse_document
\* has none), no text, or "T "
Docs(e) ==
    {Ok(<<>>, <<>>), Ok(<<84, 32>>, <<>>)}
        \cup (IF e \in {"html", "htm"} THEN {} ELSE {Err(<<"parse error">>)})

\* The batch as a record
Walk == [entry |-> walk, printed |-> printed, written |-> written,
         removed |-> removed, converted |-> converted, ret |-> ret, pc |-> pc]

InitBatch ==
    /\ pc = "walk"
    /\ tree \in Trees
    /\ args \in CommandLines
    /\ walk = 1
    /\ printed = <<>>
    /\ written = {}
    /\ removed = {}
    /\ converted = {}
    /\ ret = "none"
    /\ data = <<>>
    /\ ext = ""
    /\ guess = "windows-1252"
    /\ guess2 = "windows-1252"
    /\ res = None
    /\ prev = None
    /\ rtf = <<>>
    /\ pos = 1
    /\ bytes = <<>>

\* for entry in WalkDir::new(dir) ... { ... }
MainLogicPass ==
    /\ pc = "walk"
    /\ walk <= Len(tree)
    /\ LET f == tree[walk]
           called == f.is_file /\ f.has_ext /\ f.ext \in sup_ext
           \* the detector runs on a buffer that is not UTF-8
           detects == called /\ ~is_utf8(f.data)
       IN  \E g \in (IF detects THEN Encodings ELSE {guess}) :
           \E g2 \in (IF called /\ f.ext = "rtf" THEN Encodings ELSE {g}) :
           \E io \in (IF called THEN BOOLEAN ELSE {TRUE}) :
           \E doc \in (IF called /\ io /\ f.ext # "txt" THEN Docs(f.ext) ELSE {None}) :
           \E wr \in (IF called THEN BOOLEAN ELSE {TRUE}) :
           \E rm \in BOOLEAN :
           \E r \in {IF called THEN extract(f.ext, f.data, g, g2, io, doc) ELSE None} :
           \E w \in {loop_pass(Walk, f, args, r, wr, rm)} :
                   /\ data' = f.data
                   /\ ext' = f.ext
                   /\ guess' = g
                   /\ guess2' = g2
                   /\ res' = r
                   /\ walk' = w.entry
                   /\ printed' = w.printed
                   /\ written' = w.written
                   /\ removed' = w.removed
                   /\ converted' = w.converted
                   /\ ret' = w.ret
                   /\ pc' = w.pc
    /\ UNCHANGED <<tree, args, prev, rtf, pos, bytes>>

\* Ok(())
MainLogicReturn ==
    /\ pc = "walk"
    /\ walk > Len(tree)
    /\ ret' = "ok"
    /\ pc' = "returned"
    /\ UNCHANGED <<data, ext, guess, guess2, res, prev, rtf, pos, bytes, tree, walk,
                   args, printed, written, removed, converted>>

NextBatch == MainLogicPass \/ MainLogicReturn

SpecBatch == InitBatch /\ [][NextBatch]_vars

---------------------------------------------------------------------------
(* Claims about the batch loop (checked under SpecBatch)                   *)

\* The entries convert_file is called on
Supported(f) == f.is_file /\ f.has_ext /\ f.ext \in sup_ext

\* The line "xxx ..." was printed for the i-th entry
Reported(i) == \E k \in 1..Len(printed) : printed[k].mark = "xxx" /\ printed[k].entry = i

\* C11: in a pass of the loop on a supported file for which convert_file
\* fails, the failure is printed with its cause, no output file is written and
\* no file is removed (whatever the options, -r included), and the loop goes
\* on to the next entry; main_logic returns before the end of the walk only
\* with the failure of a write or of a remove step; and every supported file
\* the loop has passed, all of them once main_logic has returned Ok, has been
\* handed to convert_file.
C11_FailureCaught ==
    [][pc = "walk" =>
        /\ (walk <= Len(tree) /\ Supported(tree[walk]) /\ ~res'.ok) =>
            /\ printed' = Append(printed, Line("xxx", walk, res'.err))
            /\ written' = written
            /\ removed' = removed
            /\ pc' = "walk"
            /\ walk' = walk + 1
            /\ ret' = "none"
        /\ (pc' = "returned" /\ walk <= Len(tree)) =>
            ret' \in {"write failed", "remove_file failed"}
        /\ (pc' = "returned" /\ walk > Len(tree)) => ret' = "ok"
        /\ \A i \in 1..Len(tree) :
            (Supported(tree[i]) /\ (i < walk' \/ ret' = "ok")) => i \in converted'
      ]_vars

\* With -r, a file that is not plain text failed to convert and was reported,
\* kept and not written, and a later file was converted, written and removed
C11_Witness ==
    /\ pc = "returned"
    /\ ret = "ok"
    /\ Flag(args, "-r")
    /\ \E i, j \in 1..Len(tree) :
        /\ i < j
        /\ Supported(tree[i])
        /\ tree[i].ext # "txt"
        /\ Reported(i)
        /\ i \notin removed
        /\ \A t \in written : t[1] # i
        /\ j \in removed
        /\ \E t \in written : t[1] = j

============================================================================
